---- MODULE Spec2Model ----
(***************************************************************************)
(* Planetary hour face (watch-faces/complication/planetary_hour_face.c).   *)
(*                                                                         *)
(* Times are whole seconds.  An Instant is a count of seconds since        *)
(* 1970-01-01 00:00:00 of the local civil clock (the face always converts  *)
(* with a zero offset).  A decimal-hour value of the sun-event function is *)
(* carried as the whole number of seconds it stands for (hours * 3600), so *)
(* the floating arithmetic of the face is modelled as exact arithmetic on  *)
(* seconds.                                                                *)
(***************************************************************************)
EXTENDS Integers, Sequences, FiniteSets, TLC

VARIABLES
    lcd_type,            \* watch_get_lcd_type(): "custom" (5-digit) or "classic" (6-digit)
    presets,             \* longLatPresets of the build, entry 1 is the default slot
    location,            \* the persisted location register [latitude, longitude]
    sun,                 \* the sun-event function of this run, see sun_rise_set
    utc_offset,          \* movement_get_current_timezone_offset(), in seconds
    now,                 \* the local RTC clock, an Instant
    phase,               \* "resigned", "activated" (activate ran), "running"
    hour_offset,         \* state->hour_offset
    longLatToUse,        \* state->longLatToUse
    hour_offset_expires, \* state->hour_offset_expires, a date-time record
    page,                \* state->location_state.page
    active_digit,        \* state->location_state.active_digit
    working_latitude,    \* state->location_state.working_latitude
    working_longitude,   \* state->location_state.working_longitude
    location_changed,    \* state->location_state.location_changed
    result,              \* what the face shows: the outcome of the last update, blank
                         \* while the face is resigned
    used,                \* what the run has used of the model's bounds
    probe                \* input and output of a function applied on its own

vars == << lcd_type, presets, location, sun, utc_offset, now, phase, hour_offset, longLatToUse,
           hour_offset_expires, page, active_digit, working_latitude,
           working_longitude, location_changed, result, used, probe >>

faceVars == << lcd_type, presets, location, sun, utc_offset, now, phase, hour_offset, longLatToUse,
               hour_offset_expires, page, active_digit, working_latitude,
               working_longitude, location_changed, result, used >>

----------------------------------------------------------------------------
(* Small arithmetic helpers.                                               *)

Abs(x) == IF x < 0 THEN -x ELSE x

----------------------------------------------------------------------------
(* Calendar: watch_date_time_t and its conversions to and from an Instant. *)

SecondsPerDay == 86400

SecondsPerHour == 3600

DateTime(y, mo, d, h, mi, s) ==
    [year |-> y, month |-> mo, day |-> d, hour |-> h, minute |-> mi, second |-> s]

\* Days since 1970-01-01 of a Gregorian calendar date, from the year yy that
\* starts in March, the month mp counted from March and the day.
DaysFromMarchYear(yy, mp, d) ==
    (yy \div 400) * 146097
        + (yy % 400) * 365 + (yy % 400) \div 4 - (yy % 400) \div 100
        + (153 * mp + 2) \div 5 + d - 1 - 719468

DaysFromCivil(y, m, d) ==
    DaysFromMarchYear(IF m <= 2 THEN y - 1 ELSE y, IF m > 2 THEN m - 3 ELSE m + 9, d)

\* The Gregorian calendar date of a count of days since 1970-01-01, computed in
\* steps: the 400-year era and the day of it, the year of the era, the day of
\* that year (from March), the month (from March).
CivilFromMonth(era, yoe, doy, mp) ==
    [year  |-> yoe + era * 400 + (IF mp < 10 THEN 0 ELSE 1),
     month |-> IF mp < 10 THEN mp + 3 ELSE mp - 9,
     day   |-> doy - (153 * mp + 2) \div 5 + 1]

CivilFromDayOfYear(era, yoe, doy) == CivilFromMonth(era, yoe, doy, (5 * doy + 2) \div 153)

CivilFromYearOfEra(era, doe, yoe) ==
    CivilFromDayOfYear(era, yoe, doe - (365 * yoe + yoe \div 4 - yoe \div 100))

CivilFromDayOfEra(era, doe) ==
    CivilFromYearOfEra(era, doe,
        (doe - doe \div 1460 + doe \div 36524 - doe \div 146096) \div 365)

CivilFromDays(n) == CivilFromDayOfEra((n + 719468) \div 146097, (n + 719468) % 146097)

\* _unix: watch_utility_date_time_to_unix_time(t, 0).
_unix(t) ==
    DaysFromCivil(t.year, t.month, t.day) * SecondsPerDay
        + t.hour * SecondsPerHour + t.minute * 60 + t.second

DateTimeOf(c, sod) ==
    DateTime(c.year, c.month, c.day,
             sod \div SecondsPerHour, (sod % SecondsPerHour) \div 60, sod % 60)

\* _from_unix: watch_utility_date_time_from_unix_time(ts, 0).
_from_unix(ts) == DateTimeOf(CivilFromDays(ts \div SecondsPerDay), ts % SecondsPerDay)

\* _midnight_of
_midnight_of(t) == [t EXCEPT !.hour = 0, !.minute = 0, !.second = 0]

\* _add_days
_add_days(day_midnight, d) == _from_unix(_unix(day_midnight) + SecondsPerDay * d)

\* The .reg view of a watch_date_time_t: the fields packed most significant
\* first (year, month, day, hour, minute, second), so comparing two .reg values
\* compares the fields lexicographically.
WATCH_RTC_REFERENCE_YEAR == 2020

Reg(t) ==
    (((((t.year - WATCH_RTC_REFERENCE_YEAR) * 16 + t.month) * 32 + t.day) * 32
        + t.hour) * 64 + t.minute) * 64 + t.second

----------------------------------------------------------------------------
(* RulerResolver.                                                          *)

\* The table with the entries of Thursday and Friday exchanged.
week_days_swapped == << 3, 6, 2, 5, 4, 1, 0 >>

\* week_days_to_chaldean_order, indexed by day of week 0 = Sunday .. 6 = Saturday
week_days_to_chaldean_order == << 3, 6, 2, 5, 1, 4, 0 >>

\* planet_names, indexed by Chaldean position 0..6
planet_names == << "Saturn", "Jupiter", "Mars", "Sun", "Venus", "Mercury", "Moon" >>

\* The day-of-week expression without the January/February adjustment.
ZellerNoJanFeb(base) ==
    (base.day + (2 * base.month) + ((3 * (base.month + 1)) \div 5) + base.year
        + (base.year \div 4) - (base.year \div 100) + (base.year \div 400) + 1) % 7

\* The day-of-week expression of planetary_ruler_from_base_and_time.
ZellerDayOfWeek(base) ==
    LET month == IF base.month < 3 THEN base.month + 12 ELSE base.month
        year  == IF base.month < 3 THEN base.year - 1 ELSE base.year
    IN  (base.day + (2 * month) + ((3 * (month + 1)) \div 5) + year
            + (year \div 4) - (year \div 100) + (year \div 400) + 1) % 7

RulerIndexBadModulus(base, time_since_sunrise) ==
    (week_days_to_chaldean_order[ZellerDayOfWeek(base) + 1] + time_since_sunrise) % 6

\* ruler_index of planetary_ruler_from_base_and_time
RulerIndex(base, time_since_sunrise) ==
    (week_days_to_chaldean_order[ZellerDayOfWeek(base) + 1] + time_since_sunrise) % 7

\* planetary_ruler_from_base_and_time: the entry of planet_names
planetary_ruler_from_base_and_time(base, time_since_sunrise) ==
    planet_names[RulerIndex(base, time_since_sunrise) + 1]

----------------------------------------------------------------------------
(* SunTimes.                                                               *)

\* sun_rise_set(year, month, day, lon, lat): the external sun-event function.
\* The run's function is sun: a non-zero status on the days in sun.fail, and
\* otherwise the UTC decimal hours sun.rise and sun.set (in seconds).
sun_rise_set(year, month, day, lon, lat) ==
    [status |-> IF DaysFromCivil(year, month, day) \in sun.fail THEN 1 ELSE 0,
     rise   |-> sun.rise,
     set    |-> sun.set]

\* _local_decimal_hours_to_dt, first part: the day rollover for an hour that
\* is negative or exceeds 23, and t.unit.hour = (uint8_t)hour in a 5-bit field.
HourOnDay(day_local, hour) ==
    IF hour < 0
      THEN [_from_unix(_unix(day_local) - SecondsPerDay) EXCEPT
                !.hour = ((hour + 24) % 256) % 32]
      ELSE IF hour >= 24
             THEN [_from_unix(_unix(day_local) + SecondsPerDay) EXCEPT
                       !.hour = ((hour - 24) % 256) % 32]
             ELSE [day_local EXCEPT !.hour = (hour % 256) % 32]

\* The minute carry with the hour wrapping to 0 on the same date.
CarryMinuteSameDay(t, minute) ==
    IF minute = 60
      THEN [t EXCEPT !.minute = 0, !.hour = (t.hour + 1) % 24]
      ELSE [t EXCEPT !.minute = minute]

\* _local_decimal_hours_to_dt, last part: a minute of 60 carries into the hour
\* and, when the hour wraps to 0, into the next day.
CarryMinute(t, minute) ==
    IF minute = 60
      THEN IF (t.hour + 1) % 24 = 0
             THEN _from_unix(_unix([t EXCEPT !.minute = 0, !.hour = 0]) + SecondsPerDay)
             ELSE [t EXCEPT !.minute = 0, !.hour = (t.hour + 1) % 24]
      ELSE [t EXCEPT !.minute = minute]

\* _local_decimal_hours_to_dt, middle part: frac is the fractional hour in
\* seconds; seconds = frac % 60 decides between floor and ceil of the minutes.
RoundMinute(t, frac) ==
    CarryMinute(t, IF frac % 60 < 30 THEN frac \div 60 ELSE frac \div 60 + 1)

\* _local_decimal_hours_to_dt(day_local, local_hours_dec), the decimal hours
\* given in seconds: hour = floor, fractional_hour = the rest.
_local_decimal_hours_to_dt(day_local, local_hours_dec) ==
    RoundMinute(HourOnDay(day_local, local_hours_dec \div SecondsPerHour),
                local_hours_dec % SecondsPerHour)

\* _compute_local_sun_times after the call of sun_rise_set returned r: ok is
\* the returned flag; sunrise and sunset are the out-parameters, which are
\* written only when ok is TRUE.
SunTimesFrom(day_local, r, hours_from_utc) ==
    IF r.status # 0
      THEN [ok |-> FALSE, sunrise |-> day_local, sunset |-> day_local]
      ELSE [ok      |-> TRUE,
            sunrise |-> _local_decimal_hours_to_dt(day_local, r.rise + hours_from_utc),
            sunset  |-> _local_decimal_hours_to_dt(day_local, r.set + hours_from_utc)]

\* _compute_local_sun_times
_compute_local_sun_times(day_local, lon, lat, hours_from_utc) ==
    SunTimesFrom(day_local,
                 sun_rise_set(day_local.year, day_local.month, day_local.day, lon, lat),
                 hours_from_utc)

----------------------------------------------------------------------------
(* HourDivider.                                                            *)

\* The quotient rounded to the nearest index instead of floored.
RawIndexRounded(ps, dur, tt) ==
    IF tt >= ps
      THEN ((tt - ps) * 12 + (dur \div 2)) \div dur
      ELSE LET q == 2147483647 \div dur
               r == (2147483647 % dur) + 1
           IN  24 * q + ((24 * r - 12 * (ps - tt)) \div dur)

\* floor((double)(tt - ps) / hour_duration) with tt - ps a 32-bit unsigned
\* difference and hour_duration = dur / 12.0.  For tt < ps the difference is
\* 2^32 - (ps - tt); with 2^31 = q * dur + r the quotient is computed without
\* leaving the range of 32-bit signed integers.
RawIndex(ps, dur, tt) ==
    IF tt >= ps
      THEN ((tt - ps) * 12) \div dur
      ELSE LET q == 2147483647 \div dur
               r == (2147483647 % dur) + 1
           IN  24 * q + ((24 * r - 12 * (ps - tt)) \div dur)

\* if (index < 0) index = 0; if (index > 11) index = 11;
ClampIndex(raw) == IF raw < 0 THEN 0 ELSE IF raw > 11 THEN 11 ELSE raw

\* The sub-hour with its end taken as its start plus the whole seconds of one
\* twelfth of the period.
SubHourEndFromStart(ps, dur, index) ==
    [index      |-> index,
     hour_start |-> _from_unix(ps + ((index * dur) \div 12)),
     hour_end   |-> _from_unix(ps + ((index * dur) \div 12) + (dur \div 12))]

\* The out-parameters of _find_planetary_hour_in_period for an index:
\* ps + (uint32_t)(index * hour_duration), ps + (uint32_t)((index + 1) * hour_duration).
SubHour(ps, dur, index) ==
    [index      |-> index,
     hour_start |-> _from_unix(ps + ((index * dur) \div 12)),
     hour_end   |-> _from_unix(ps + (((index + 1) * dur) \div 12))]

\* _find_planetary_hour_in_period on the three second counts ps, pe, tt.
FindInSeconds(ps, pe, tt) == SubHour(ps, pe - ps, ClampIndex(RawIndex(ps, pe - ps, tt)))

\* _find_planetary_hour_in_period for a period with period_start < period_end:
\* the returned index and the two out-parameters.
_find_planetary_hour_in_period(period_start, period_end, target_time) ==
    FindInSeconds(_unix(period_start), _unix(period_end), _unix(target_time))

----------------------------------------------------------------------------
(* ExpiryScheduler.                                                        *)

\* The expiry set to the sub-hour's end itself.
ExpirationNoGrace(next_hours_offset) == _from_unix(_unix(next_hours_offset))

\* _planetary_hour_set_expiration: the value stored in hour_offset_expires.
_planetary_hour_set_expiration(next_hours_offset) ==
    _from_unix(_unix(next_hours_offset) + 60)

----------------------------------------------------------------------------
(* LocationEditor: the digit fields of a coordinate.                       *)

\* lat_lon_settings_t: sign and hundreds are one-bit fields (sign++ toggles,
\* a longitude has hundreds 0 or 1), the four digits are four-bit fields.
StoreBit(x) == x % 2

StoreDigit(x) == x % 16

\* _latlon_from_struct: the signed hundredths of a degree of the digits.
_latlon_from_struct(val) ==
    (IF val.sign # 0 THEN -1 ELSE 1)
        * (val.hundreds * 10000 + val.tens * 1000 + val.ones * 100
             + val.tenths * 10 + val.hundredths)

\* The digits with the hundreds place left out, as for a latitude.
StructFromLatlonNoHundreds(val) ==
    [sign       |-> IF val < 0 THEN 1 ELSE 0,
     hundreds   |-> 0,
     tens       |-> StoreDigit((Abs(val) \div 1000) % 10),
     ones       |-> StoreDigit((Abs(val) \div 100) % 10),
     tenths     |-> StoreDigit((Abs(val) \div 10) % 10),
     hundredths |-> StoreDigit(Abs(val) % 10)]

\* _planetary_hour_face_struct_from_latlon
_planetary_hour_face_struct_from_latlon(val) ==
    LET a == Abs(val)
    IN  [sign       |-> IF val < 0 THEN 1 ELSE 0,
         hundreds   |-> StoreBit((a \div 10000) % 10),
         tens       |-> StoreDigit((a \div 1000) % 10),
         ones       |-> StoreDigit((a \div 100) % 10),
         tenths     |-> StoreDigit((a \div 10) % 10),
         hundredths |-> StoreDigit(a % 10)]

\* The field advanced modulo 10 with no check of the limit.
AdvanceOrResetUnchecked(w, field, limit) ==
    [w EXCEPT ![field] = StoreDigit((w[field] + 1) % 10)]

\* The pattern of most cases of _planetary_hour_face_advance_digit: the field
\* is advanced modulo 10 and set back to 0 when the coordinate exceeds limit.
AdvanceOrReset(w, field, limit) ==
    LET w1 == [w EXCEPT ![field] = StoreDigit((w[field] + 1) % 10)]
    IN  IF Abs(_latlon_from_struct(w1)) > limit THEN [w1 EXCEPT ![field] = 0] ELSE w1

\* The tens of the latitude advanced with no check of the bound.
AdvanceLatitudeTensUnchecked(w) ==
    [w EXCEPT !.tens = StoreDigit((w.tens + 1) % 10)]

\* The tens of the latitude set back to 0 when the bound is exceeded, as the
\* other digits are.
AdvanceLatitudeTensResetsTens(w) ==
    IF Abs(_latlon_from_struct([w EXCEPT !.tens = StoreDigit((w.tens + 1) % 10)])) > 9000
      THEN [w EXCEPT !.tens = 0]
      ELSE [w EXCEPT !.tens = StoreDigit((w.tens + 1) % 10)]

\* Latitude tens (custom case 0, classic case 2).
AdvanceLatitudeTens(w) ==
    LET w1 == [w EXCEPT !.tens = StoreDigit((w.tens + 1) % 10)]
    IN  IF Abs(_latlon_from_struct(w1)) > 9000
          THEN [w1 EXCEPT !.ones = 0, !.tenths = 0, !.hundredths = 0]
          ELSE w1

\* Longitude tens of the custom layout (case 0), with the carry into hundreds.
AdvanceLongitudeTensCarry(w) ==
    LET t1 == StoreDigit(w.tens + 1)
        w1 == IF t1 >= 10
                THEN [w EXCEPT !.tens = 0, !.hundreds = StoreBit(w.hundreds + 1)]
                ELSE [w EXCEPT !.tens = t1]
    IN  IF Abs(_latlon_from_struct(w1)) > 18000
          THEN [w1 EXCEPT !.hundreds = 0, !.tens = 0, !.ones = 0,
                          !.tenths = 0, !.hundredths = 0]
          ELSE w1

\* Longitude hundreds of the classic layout (case 1).
AdvanceLongitudeHundreds(w) ==
    LET w1 == [w EXCEPT !.hundreds = StoreBit((w.hundreds + 1) % 10)]
    IN  IF Abs(_latlon_from_struct(w1)) > 18000
          THEN [w1 EXCEPT !.tens = 8, !.ones = 0, !.tenths = 0, !.hundredths = 0]
          ELSE w1

\* sign++
AdvanceSign(w) == [w EXCEPT !.sign = StoreBit(w.sign + 1)]

\* _planetary_hour_face_advance_digit: the two working coordinates after the
\* command, by layout, page and active digit.
_planetary_hour_face_advance_digit(lcd, pg, digit, wlat, wlon) ==
    IF lcd = "custom"
      THEN IF pg = 1
             THEN [lat |-> CASE digit = 0 -> AdvanceLatitudeTens(wlat)
                             [] digit = 1 -> AdvanceOrReset(wlat, "ones", 9000)
                             [] digit = 2 -> AdvanceOrReset(wlat, "tenths", 9000)
                             [] digit = 3 -> AdvanceOrReset(wlat, "hundredths", 9000)
                             [] digit = 4 -> AdvanceSign(wlat)
                             [] OTHER     -> wlat,
                   lon |-> wlon]
             ELSE IF pg = 2
                    THEN [lat |-> wlat,
                          lon |-> CASE digit = 0 -> AdvanceLongitudeTensCarry(wlon)
                                    [] digit = 1 -> AdvanceOrReset(wlon, "ones", 18000)
                                    [] digit = 2 -> AdvanceOrReset(wlon, "tenths", 18000)
                                    [] digit = 3 -> AdvanceOrReset(wlon, "hundredths", 18000)
                                    [] digit = 4 -> AdvanceSign(wlon)
                                    [] OTHER     -> wlon]
                    ELSE [lat |-> wlat, lon |-> wlon]
      ELSE IF pg = 1
             THEN [lat |-> CASE digit = 0 -> AdvanceSign(wlat)
                             [] digit = 1 -> wlat          \* we skip this digit
                             [] digit = 2 -> AdvanceLatitudeTens(wlat)
                             [] digit = 3 -> AdvanceOrReset(wlat, "ones", 9000)
                             [] digit = 4 -> AdvanceOrReset(wlat, "tenths", 9000)
                             [] digit = 5 -> AdvanceOrReset(wlat, "hundredths", 9000)
                             [] OTHER     -> wlat,
                   lon |-> wlon]
             ELSE IF pg = 2
                    THEN [lat |-> wlat,
                          lon |-> CASE digit = 0 -> AdvanceSign(wlon)
                                    [] digit = 1 -> AdvanceLongitudeHundreds(wlon)
                                    [] digit = 2 -> AdvanceOrReset(wlon, "tens", 18000)
                                    [] digit = 3 -> AdvanceOrReset(wlon, "ones", 18000)
                                    [] digit = 4 -> AdvanceOrReset(wlon, "tenths", 18000)
                                    [] digit = 5 -> AdvanceOrReset(wlon, "hundredths", 18000)
                                    [] OTHER     -> wlon]
                    ELSE [lat |-> wlat, lon |-> wlon]

\* _update_location_register: the persisted register after the call; the
\* working digits are written when they were changed.
_update_location_register(changed, wlat, wlon, reg) ==
    IF changed
      THEN [latitude  |-> _latlon_from_struct(wlat),
            longitude |-> _latlon_from_struct(wlon)]
      ELSE reg

----------------------------------------------------------------------------
(* PeriodSelector and the update of the face.                              *)

NoDateTime == DateTime(0, 0, 0, 0, 0, 0)

\* What the face shows without a computed hour: "NoLoc" (no location is set),
\* "None" (the sun times of the target day failed) after an update that
\* returned early, "Blank" while another face owns the display.
NoResult(kind, target) ==
    [kind |-> kind, target_time |-> target,
     period_start |-> NoDateTime, period_end |-> NoDateTime,
     is_night |-> FALSE, base_day |-> NoDateTime, hour_index |-> 0,
     hour_start |-> NoDateTime, hour_end |-> NoDateTime, ruler |-> "",
     expires |-> NoDateTime]

\* The location the update works with: the persisted register, or a preset.
LocationInUse(use, reg) ==
    IF use = 0 \/ Len(presets) <= 1
      THEN reg
      ELSE [latitude |-> presets[use + 1].latitude, longitude |-> presets[use + 1].longitude]

\* The choice on second counts with the sunset instant still counted as daytime.
SelectPeriodSunsetInDay(tt, target0, today, prev, next, stale) ==
    IF tt < _unix(today.sunrise)
      THEN [period_start |-> IF prev.ok THEN prev.sunset
                             ELSE _from_unix(_unix(today.sunrise) - stale),
            period_end   |-> today.sunrise,
            is_night     |-> TRUE,
            base_day     |-> _add_days(target0, -1)]
      ELSE IF tt > _unix(today.sunset)
             THEN [period_start |-> today.sunset,
                   period_end   |-> IF next.ok THEN next.sunrise
                                    ELSE _from_unix(_unix(today.sunset) + stale),
                   is_night     |-> TRUE,
                   base_day     |-> target0]
             ELSE [period_start |-> today.sunrise,
                   period_end   |-> today.sunset,
                   is_night     |-> FALSE,
                   base_day     |-> target0]

\* The choice with the night before sunrise anchored to the target's own day.
SelectPeriodAnchorToday(tt, target0, today, prev, next, stale) ==
    IF tt < _unix(today.sunrise)
      THEN [period_start |-> IF prev.ok THEN prev.sunset
                             ELSE _from_unix(_unix(today.sunrise) - stale),
            period_end   |-> today.sunrise,
            is_night     |-> TRUE,
            base_day     |-> target0]
      ELSE IF tt >= _unix(today.sunset)
             THEN [period_start |-> today.sunset,
                   period_end   |-> IF next.ok THEN next.sunrise
                                    ELSE _from_unix(_unix(today.sunset) + stale),
                   is_night     |-> TRUE,
                   base_day     |-> target0]
             ELSE [period_start |-> today.sunrise,
                   period_end   |-> today.sunset,
                   is_night     |-> FALSE,
                   base_day     |-> target0]

\* The three-way choice of _planetary_hour_face_update for the target second
\* count tt.  prev and next are the sun times of the adjacent days, whose
\* returned flag the code does not read: when the computation failed, the
\* out-parameter that becomes a period boundary was never written.  Its stale
\* content is taken to lie `stale` seconds on the far side of the period's
\* other boundary.
SelectPeriod(tt, target0, today, prev, next, stale) ==
    IF tt < _unix(today.sunrise)
      THEN [period_start |-> IF prev.ok THEN prev.sunset
                             ELSE _from_unix(_unix(today.sunrise) - stale),
            period_end   |-> today.sunrise,
            is_night     |-> TRUE,
            base_day     |-> _add_days(target0, -1)]
      ELSE IF tt >= _unix(today.sunset)
             THEN [period_start |-> today.sunset,
                   period_end   |-> IF next.ok THEN next.sunrise
                                    ELSE _from_unix(_unix(today.sunset) + stale),
                   is_night     |-> TRUE,
                   base_day     |-> target0]
             ELSE [period_start |-> today.sunrise,
                   period_end   |-> today.sunset,
                   is_night     |-> FALSE,
                   base_day     |-> target0]

\* The end of _planetary_hour_face_update: the ruler of the sub-hour hr of the
\* period sel and the expiry.
Shown(target_time, sel, hr) ==
    [kind         |-> "Result",
     target_time  |-> target_time,
     period_start |-> sel.period_start,
     period_end   |-> sel.period_end,
     is_night     |-> sel.is_night,
     base_day     |-> sel.base_day,
     hour_index   |-> hr.index,
     hour_start   |-> hr.hour_start,
     hour_end     |-> hr.hour_end,
     ruler        |-> planetary_ruler_from_base_and_time(
                          sel.base_day, hr.index + (IF sel.is_night THEN 12 ELSE 0)),
     expires      |-> _planetary_hour_set_expiration(hr.hour_end)]

\* _planetary_hour_face_update from the division of the chosen period on.
UpdateInPeriod(target_time, sel) ==
    Shown(target_time, sel,
          _find_planetary_hour_in_period(sel.period_start, sel.period_end, target_time))

\* _planetary_hour_face_update from the sun times of the target day on.
UpdateWithSunTimes(lat, lon, target_time, target0, today, stale) ==
    IF ~today.ok
      THEN NoResult("None", target_time)
      ELSE UpdateInPeriod(target_time,
               SelectPeriod(_unix(target_time), target0, today,
                            _compute_local_sun_times(_add_days(target0, -1), lon, lat, utc_offset),
                            _compute_local_sun_times(_add_days(target0, 1), lon, lat, utc_offset),
                            stale))

\* _planetary_hour_face_update for the location in use and the target time.
UpdateAt(movement_location, target_time, target0, stale) ==
    IF movement_location.latitude = 0 /\ movement_location.longitude = 0
      THEN NoResult("NoLoc", NoDateTime)
      ELSE UpdateWithSunTimes(movement_location.latitude, movement_location.longitude,
                              target_time, target0,
                              _compute_local_sun_times(target0, movement_location.longitude,
                                                   movement_location.latitude, utc_offset),
                              stale)

TargetTime(clock, hoff) == _from_unix(clock + hoff * SecondsPerHour)

\* _planetary_hour_face_update at clock value clock with hour offset hoff,
\* preset index use and persisted register reg: what it computes and shows.
_planetary_hour_face_update(clock, hoff, use, reg, stale) ==
    UpdateAt(LocationInUse(use, reg), TargetTime(clock, hoff),
             _midnight_of(TargetTime(clock, hoff)), stale)

----------------------------------------------------------------------------
(* Bounds of the model and the inputs of a run.                            *)

MaxTicks == 2            \* clock advances of one run

MaxPresses == 0          \* advance-digit commands of one run of the engine

MaxEditPresses == 1      \* advance-digit commands of one run of the editor

MaxHourOffset == 1       \* |hour_offset| stays within this

\* Seconds the clock advances between two handled ticks: the one-second tick
\* and the one-minute low-energy update.
TickSteps == {1, 60}

\* Offsets assumed for a boundary left unwritten, see SelectPeriod.
StaleGaps == {21600, 43200}

LcdTypes == {"custom", "classic"}

\* Builds with the default slot alone and with one preset location.
PresetBuilds ==
    { << [latitude |-> 0, longitude |-> 0] >>,
      << [latitude |-> 0, longitude |-> 0], [latitude |-> 4072, longitude |-> -7401] >> }

Day0 == DaysFromCivil(2024, 1, 1)

At(day, h, mi, s) == day * SecondsPerDay + h * SecondsPerHour + mi * 60 + s

\* Sun-event functions: sunrise 06:07 and sunset 18:07 UTC on every day, with
\* no failing day or one failing day around Day0.
SunProfiles ==
    { [rise |-> At(0, 6, 7, 0), set |-> At(0, 18, 7, 0), fail |-> f] :
        f \in { {}, {Day0 - 1}, {Day0}, {Day0 + 1} } }

London == [latitude |-> 5150, longitude |-> -13]

Unset == [latitude |-> 0, longitude |-> 0]

\* Clock values at which a run starts: a second before sunrise, inside the
\* first daytime sub-hour, 61 seconds before the expiry of that sub-hour, and a
\* second before sunset.
StartInstants ==
    { At(Day0, 6, 6, 59), At(Day0, 7, 0, 0), At(Day0, 7, 6, 59), At(Day0, 18, 6, 59) }

\* Persisted coordinates from which the editor is exercised: near and at the
\* bounds, of both signs, and in the middle of the range.
EditorLocations ==
    { [latitude |-> 5150,  longitude |-> -13],
      [latitude |-> 8950,  longitude |-> 17950],
      [latitude |-> -8999, longitude |-> -17999],
      [latitude |-> 9000,  longitude |-> 18000],
      [latitude |-> 8099,  longitude |-> 9999],
      [latitude |-> -4072, longitude |-> 7401],
      [latitude |-> 899,   longitude |-> -10800],
      [latitude |-> 0,     longitude |-> 17099] }

NoProbe == [fn |-> "none"]

\* The face before its first activation (setup zeroes the context).
Resigned(lcd, build, reg, s, off, clock) ==
    /\ lcd_type = lcd
    /\ presets = build
    /\ location = reg
    /\ sun = s
    /\ utc_offset = off
    /\ now = clock
    /\ phase = "resigned"
    /\ hour_offset = 0
    /\ longLatToUse = 0
    /\ hour_offset_expires = DateTime(WATCH_RTC_REFERENCE_YEAR, 0, 0, 0, 0, 0)
    /\ page = 0
    /\ active_digit = 0
    /\ working_latitude = _planetary_hour_face_struct_from_latlon(0)
    /\ working_longitude = _planetary_hour_face_struct_from_latlon(0)
    /\ location_changed = FALSE
    /\ result = NoResult("Blank", NoDateTime)
    /\ used = [ticks |-> 0, presses |-> 0]

DefaultBuild == << Unset >>

NormalSun == [rise |-> At(0, 6, 7, 0), set |-> At(0, 18, 7, 0), fail |-> {}]

\* A sun-event function whose night sub-hours end one minute before the hour.
LateSun == [rise |-> At(0, 5, 59, 0), set |-> At(0, 17, 59, 0), fail |-> {}]

\* Runs of the engine: a set location under every sun-event function and start
\* of the clock, a run late in the evening whose sub-hour ends at 23:59, and
\* the unset register (with and without a preset to select).
Init ==
    /\ \/ \E s \in SunProfiles, clock \in StartInstants :
             Resigned("custom", DefaultBuild, London, s, 0, clock)
       \/ Resigned("custom", DefaultBuild, London, LateSun, 0, At(Day0, 23, 0, 0))
       \/ \E build \in PresetBuilds :
             Resigned("classic", build, Unset, NormalSun, 0, At(Day0, 7, 0, 0))
    /\ probe = NoProbe

\* Runs of the editor: every layout and build from each persisted coordinate.
InitEditor ==
    /\ \E lcd \in LcdTypes, build \in PresetBuilds, reg \in EditorLocations :
          Resigned(lcd, build, reg, NormalSun, 0, At(Day0, 7, 0, 0))
    /\ probe = NoProbe

----------------------------------------------------------------------------
(* The handlers of the face.                                               *)

\* The expiry taken from the outcome of the update whatever its kind.
StoreExpiryAlways(u) ==
    /\ result' = u
    /\ hour_offset_expires' = u.expires

\* What a run of the update leaves in the face: u is what it computed.
Store(u) ==
    /\ result' = u
    /\ hour_offset_expires' = IF u.kind = "Result" THEN u.expires ELSE hour_offset_expires

\* The part of a handler that runs _planetary_hour_face_update.
RunUpdate(clock, hoff, use, reg) ==
    \E stale \in StaleGaps : Store(_planetary_hour_face_update(clock, hoff, use, reg, stale))

\* The part of a handler that does not run the update.
NoUpdate == UNCHANGED << result, hour_offset_expires >>

\* planetary_hour_face_activate
planetary_hour_face_activate ==
    /\ phase = "resigned"
    /\ phase' = "activated"
    /\ hour_offset' = 0
    /\ longLatToUse' = 0
    /\ hour_offset_expires' = _from_unix(now)
    /\ working_latitude' = _planetary_hour_face_struct_from_latlon(location.latitude)
    /\ working_longitude' = _planetary_hour_face_struct_from_latlon(location.longitude)
    /\ page' = 0
    /\ active_digit' = 0
    /\ location_changed' = FALSE
    /\ UNCHANGED << lcd_type, presets, location, sun, utc_offset, now, result, used,
                    probe >>

\* planetary_hour_face_loop, EVENT_ACTIVATE
EventActivate ==
    /\ phase = "activated"
    /\ phase' = "running"
    /\ RunUpdate(now, hour_offset, longLatToUse, location)
    /\ UNCHANGED << lcd_type, presets, location, sun, utc_offset, now, hour_offset,
                    longLatToUse, page, active_digit, working_latitude,
                    working_longitude, location_changed, used, probe >>

\* The expiry test with the expiry instant itself not yet counted as expired.
ExpiredStrictly(date_time, expires) == Reg(date_time) > Reg(expires)

\* if (date_time.reg >= state->hour_offset_expires.reg)
Expired(date_time, expires) == Reg(date_time) >= Reg(expires)

\* planetary_hour_face_loop, EVENT_TICK and EVENT_LOW_ENERGY_UPDATE, handled
\* after the clock advanced by dt seconds.
Tick(dt) ==
    /\ phase = "running"
    /\ used.ticks < MaxTicks
    /\ used' = [used EXCEPT !.ticks = @ + 1]
    /\ now' = now + dt
    /\ IF page = 0
         THEN IF Expired(_from_unix(now'), hour_offset_expires)
                THEN RunUpdate(now', hour_offset, longLatToUse, location)
                ELSE NoUpdate
         ELSE NoUpdate
    /\ UNCHANGED << lcd_type, presets, location, sun, utc_offset, phase, hour_offset,
                    longLatToUse, page, active_digit, working_latitude,
                    working_longitude, location_changed, probe >>

TickEvent == \E dt \in TickSteps : Tick(dt)

\* EVENT_ALARM_LONG_PRESS with the exit from an editing page recomputing for
\* the location persisted before the commit.
AlarmLongPressStaleUpdate ==
    /\ phase = "running"
    /\ IF page = 0
         THEN IF longLatToUse # 0
                THEN /\ longLatToUse' = 0
                     /\ RunUpdate(now, hour_offset, 0, location)
                     /\ UNCHANGED << page, active_digit, location, location_changed >>
                ELSE /\ page' = page + 1
                     /\ active_digit' = 0
                     /\ NoUpdate
                     /\ UNCHANGED << longLatToUse, location, location_changed >>
         ELSE /\ active_digit' = 0
              /\ page' = 0
              /\ location' = _update_location_register(location_changed, working_latitude,
                                                       working_longitude, location)
              /\ location_changed' = FALSE
              /\ RunUpdate(now, hour_offset, longLatToUse, location)
              /\ UNCHANGED longLatToUse
    /\ UNCHANGED << lcd_type, presets, sun, utc_offset, now, phase, hour_offset,
                    working_latitude, working_longitude, used, probe >>

\* EVENT_ALARM_LONG_PRESS entering the editor from idle whether or not a
\* preset is selected.
AlarmLongPressEntersAlways ==
    /\ phase = "running"
    /\ IF page = 0
         THEN /\ page' = page + 1
              /\ active_digit' = 0
              /\ NoUpdate
              /\ UNCHANGED << longLatToUse, location, location_changed >>
         ELSE /\ active_digit' = 0
              /\ page' = 0
              /\ location' = _update_location_register(location_changed, working_latitude,
                                                       working_longitude, location)
              /\ location_changed' = FALSE
              /\ RunUpdate(now, hour_offset, longLatToUse, location')
              /\ UNCHANGED longLatToUse
    /\ UNCHANGED << lcd_type, presets, sun, utc_offset, now, phase, hour_offset,
                    working_latitude, working_longitude, used, probe >>

\* planetary_hour_face_loop, EVENT_ALARM_LONG_PRESS
AlarmLongPress ==
    /\ phase = "running"
    /\ IF page = 0
         THEN IF longLatToUse # 0
                THEN /\ longLatToUse' = 0
                     /\ RunUpdate(now, hour_offset, 0, location)
                     /\ UNCHANGED << page, active_digit, location, location_changed >>
                ELSE /\ page' = page + 1
                     /\ active_digit' = 0
                     /\ NoUpdate
                     /\ UNCHANGED << longLatToUse, location, location_changed >>
         ELSE /\ active_digit' = 0
              /\ page' = 0
              /\ location' = _update_location_register(location_changed, working_latitude,
                                                      working_longitude, location)
              /\ location_changed' = FALSE
              /\ RunUpdate(now, hour_offset, longLatToUse, location')
              /\ UNCHANGED longLatToUse
    /\ UNCHANGED << lcd_type, presets, sun, utc_offset, now, phase, hour_offset,
                    working_latitude, working_longitude, used, probe >>

\* planetary_hour_face_loop, EVENT_ALARM_BUTTON_UP
AlarmButtonUpEvent(presses) ==
    /\ phase = "running"
    /\ IF page # 0
         THEN LET w == _planetary_hour_face_advance_digit(lcd_type, page, active_digit,
                                     working_latitude, working_longitude)
              IN  /\ used.presses < presses
                  /\ used' = [used EXCEPT !.presses = @ + 1]
                  /\ working_latitude' = w.lat
                  /\ working_longitude' = w.lon
                  /\ location_changed' = TRUE
                  /\ NoUpdate
                  /\ UNCHANGED hour_offset
         ELSE /\ hour_offset < MaxHourOffset
              /\ hour_offset' = hour_offset + 1
              /\ RunUpdate(now, hour_offset', longLatToUse, location)
              /\ UNCHANGED << working_latitude, working_longitude, location_changed, used >>
    /\ UNCHANGED << lcd_type, presets, location, sun, utc_offset, now, phase,
                    longLatToUse, page, active_digit, probe >>

\* The cursor step with the five-digit layout wrapping one field too late.
AdvanceCursorLateWrap(lcd, pg, digit) ==
    IF digit + (IF lcd # "custom" /\ pg = 1 /\ digit = 0 THEN 2 ELSE 1) > 5
      THEN [active_digit |-> 0, page |-> (pg + 1) % 3, crossed |-> TRUE]
      ELSE [active_digit |-> digit + (IF lcd # "custom" /\ pg = 1 /\ digit = 0 THEN 2 ELSE 1),
            page |-> pg, crossed |-> FALSE]

\* The cursor step with the six-digit layout not skipping the hundreds of the
\* latitude.
AdvanceCursorNoSkip(lcd, pg, digit) ==
    IF digit + 1 > (IF lcd = "custom" THEN 4 ELSE 5)
      THEN [active_digit |-> 0, page |-> (pg + 1) % 3, crossed |-> TRUE]
      ELSE [active_digit |-> digit + 1, page |-> pg, crossed |-> FALSE]

\* The cursor step of EVENT_LIGHT_BUTTON_UP in an editing page: the active
\* digit and page after it, and whether the page boundary was crossed.
AdvanceCursor(lcd, pg, digit) ==
    IF lcd = "custom"
      THEN IF digit + 1 > 4
             THEN [active_digit |-> 0, page |-> (pg + 1) % 3, crossed |-> TRUE]
             ELSE [active_digit |-> digit + 1, page |-> pg, crossed |-> FALSE]
      ELSE LET d1 == digit + 1
               d2 == IF pg = 1 /\ d1 = 1 THEN d1 + 1 ELSE d1
           IN  IF d2 > 5
                 THEN [active_digit |-> 0, page |-> (pg + 1) % 3, crossed |-> TRUE]
                 ELSE [active_digit |-> d2, page |-> pg, crossed |-> FALSE]

\* planetary_hour_face_loop, EVENT_LIGHT_BUTTON_UP
LightButtonUp ==
    /\ phase = "running"
    /\ IF page = 0 /\ Len(presets) > 1
         THEN /\ longLatToUse' = (longLatToUse + 1) % Len(presets)
              /\ RunUpdate(now, hour_offset, longLatToUse', location)
              /\ UNCHANGED << page, active_digit, location, location_changed, hour_offset >>
         ELSE LET c   == IF page # 0
                           THEN AdvanceCursor(lcd_type, page, active_digit)
                           ELSE [active_digit |-> active_digit, page |-> page,
                                 crossed |-> FALSE]
                  reg == IF c.crossed
                           THEN _update_location_register(location_changed, working_latitude,
                                                         working_longitude, location)
                           ELSE location
              IN  /\ page' = c.page
                  /\ active_digit' = c.active_digit
                  /\ location' = reg
                  /\ location_changed' = IF c.crossed THEN FALSE ELSE location_changed
                  /\ UNCHANGED longLatToUse
                  /\ IF c.page = 0
                       THEN /\ hour_offset > -MaxHourOffset
                            /\ hour_offset' = hour_offset - 1
                            /\ RunUpdate(now, hour_offset', longLatToUse, reg)
                       ELSE /\ UNCHANGED hour_offset
                            /\ NoUpdate
    /\ UNCHANGED << lcd_type, presets, sun, utc_offset, now, phase,
                    working_latitude, working_longitude, used, probe >>

\* planetary_hour_face_resign
planetary_hour_face_resign ==
    /\ phase \in {"activated", "running"}
    /\ phase' = "resigned"
    /\ page' = 0
    /\ active_digit' = 0
    /\ hour_offset' = 0
    /\ location' = _update_location_register(location_changed, working_latitude,
                                            working_longitude, location)
    /\ location_changed' = FALSE
    /\ result' = NoResult("Blank", NoDateTime)
    /\ UNCHANGED << lcd_type, presets, sun, utc_offset, now, longLatToUse,
                    hour_offset_expires, working_latitude, working_longitude, used,
                    probe >>

AlarmButtonUp == AlarmButtonUpEvent(MaxPresses)

EditorAlarmButtonUp == AlarmButtonUpEvent(MaxEditPresses)

Next ==
    \/ planetary_hour_face_activate
    \/ EventActivate
    \/ TickEvent
    \/ AlarmLongPress
    \/ AlarmButtonUp
    \/ LightButtonUp
    \/ planetary_hour_face_resign

Spec == Init /\ [][Next]_vars

\* The editor with the clock standing still.
NextEditor ==
    \/ planetary_hour_face_activate
    \/ EventActivate
    \/ AlarmLongPress
    \/ EditorAlarmButtonUp
    \/ LightButtonUp
    \/ planetary_hour_face_resign

SpecEditor == InitEditor /\ [][NextEditor]_vars

----------------------------------------------------------------------------
(* The ruler resolver applied on its own to every anchor day.              *)

RulerYears == 64         \* anchor years from WATCH_RTC_REFERENCE_YEAR on (a 6-bit year)

MaxOffset == 23          \* chaldean_offset ranges over 0..MaxOffset

FirstAnchorDay == DaysFromCivil(WATCH_RTC_REFERENCE_YEAR, 1, 1)

LastAnchorDay == DaysFromCivil(WATCH_RTC_REFERENCE_YEAR + RulerYears, 1, 1) - 1

\* The face, unused, while a function is applied on its own.
FaceAtRest ==
    Resigned("custom", DefaultBuild, London, NormalSun, 0, At(Day0, 7, 0, 0))

InitRuler ==
    /\ FaceAtRest
    /\ \E n \in FirstAnchorDay .. LastAnchorDay :
          probe = [fn |-> "ruler", base |-> DateTimeOf(CivilFromDays(n), 0),
                   next_base |-> DateTimeOf(CivilFromDays(n + 1), 0), done |-> FALSE,
                   day_of_week |-> 0, rulers |-> << >>, next_rulers |-> << >>]

\* planetary_ruler_from_base_and_time for every offset, on the anchor day and
\* on the day after it.
Resolve ==
    /\ probe.fn = "ruler"
    /\ ~probe.done
    /\ probe' = [probe EXCEPT
                    !.done = TRUE,
                    !.day_of_week = ZellerDayOfWeek(probe.base),
                    !.rulers = [k \in 0 .. MaxOffset |->
                                   planetary_ruler_from_base_and_time(probe.base, k)],
                    !.next_rulers = [k \in 0 .. MaxOffset |->
                                   planetary_ruler_from_base_and_time(probe.next_base, k)]]
    /\ UNCHANGED faceVars

NextRuler == Resolve

SpecRuler == InitRuler /\ [][NextRuler]_vars

----------------------------------------------------------------------------
(* The hour divider applied on its own to periods and targets.             *)

MinDuration == 12        \* shortest period in seconds: every sub-hour holds a second

MaxSmallDuration == 40   \* periods of MinDuration..MaxSmallDuration seconds, with every
                         \* target from the start to one second past the end

\* Period starts: a sunrise, a sunset, and the last second of a leap day.
DividerStarts == { At(Day0, 6, 7, 0), At(Day0, 18, 7, 0), At(Day0 + 59, 23, 59, 59) }

\* Long periods: twelve hours, off by a second, a summer day, a winter night.
LongDurations == { 43199, 43200, 43201, 58620, 27780 }

\* Target offsets from the period start tried for a long period.
LongTargets(dur) ==
    { -1, 0, 1, (dur \div 12) - 1, dur \div 12, (dur \div 2), dur - 1, dur, dur + 1 }

DividerInputs ==
    { [ps |-> ps, dur |-> dur, off |-> off] :
        ps \in DividerStarts, dur \in MinDuration .. MaxSmallDuration,
        off \in 0 .. MaxSmallDuration + 1 }
    \cup
    UNION { { [ps |-> ps, dur |-> dur, off |-> off] : ps \in DividerStarts,
                                                      off \in LongTargets(dur) } :
            dur \in LongDurations }

\* The first whole second of sub-hour i of the period of dur seconds from ps.
FirstSecondOf(ps, dur, i) == ps + ((i * dur + 11) \div 12)

InitDivider ==
    /\ FaceAtRest
    /\ \E in \in DividerInputs :
          /\ in.off <= in.dur + 1
          /\ probe = [fn |-> "divide", ps |-> in.ps, pe |-> in.ps + in.dur,
                      tt |-> in.ps + in.off, done |-> FALSE,
                      hour |-> << >>, hours |-> << >>]

\* _find_planetary_hour_in_period for the target, and for a target in each of
\* the twelve sub-hours.
Divide ==
    /\ probe.fn = "divide"
    /\ ~probe.done
    /\ probe' = [probe EXCEPT
                    !.done = TRUE,
                    !.hour = _find_planetary_hour_in_period(
                                 _from_unix(probe.ps), _from_unix(probe.pe), _from_unix(probe.tt)),
                    !.hours = [i \in 0 .. 11 |->
                                  _find_planetary_hour_in_period(
                                      _from_unix(probe.ps), _from_unix(probe.pe),
                                      _from_unix(FirstSecondOf(probe.ps, probe.pe - probe.ps, i)))]]
    /\ UNCHANGED faceVars

NextDivider == Divide

SpecDivider == InitDivider /\ [][NextDivider]_vars

----------------------------------------------------------------------------
(* Properties of the update: sun-time failures and the choice of period.   *)

\* Sunrise and sunset of a day as the sun-event function of the run gives
\* them, moved to the local clock.
SunriseOn(day) == At(day, 0, 0, 0) + sun.rise + utc_offset

SunsetOn(day) == At(day, 0, 0, 0) + sun.set + utc_offset

DayOf(t) == t \div SecondsPerDay

\* The days whose sun times the update needs for the target instant t.
NeededDays(t) ==
    {DayOf(t)} \cup (IF t < SunriseOn(DayOf(t)) THEN {DayOf(t) - 1}
                     ELSE IF t >= SunsetOn(DayOf(t)) THEN {DayOf(t) + 1}
                     ELSE {})

\* The period the three-way rule gives the target instant t.
ExpectedPeriod(t) ==
    IF t < SunriseOn(DayOf(t))
      THEN [start |-> SunsetOn(DayOf(t) - 1), end |-> SunriseOn(DayOf(t)),
            night |-> TRUE, anchor |-> DayOf(t) - 1]
      ELSE IF t >= SunsetOn(DayOf(t))
             THEN [start |-> SunsetOn(DayOf(t)), end |-> SunriseOn(DayOf(t) + 1),
                   night |-> TRUE, anchor |-> DayOf(t)]
             ELSE [start |-> SunriseOn(DayOf(t)), end |-> SunsetOn(DayOf(t)),
                   night |-> FALSE, anchor |-> DayOf(t)]

\* C1: whenever the sun-time computation fails for a day the update needs (the
\* target day, the day before for a target before sunrise, the day after for a
\* target at or after sunset), the update ends in the no-data outcome: a shown
\* result is never derived from a failed computation.
C1_NoResultFromFailedSunTimes ==
    result.kind = "Result" =>
        NeededDays(_unix(result.target_time)) \cap sun.fail = {}

\* C2: for every target instant whose needed sun times succeeded, the period is
\* the half-open three-way choice: before sunrise the night from yesterday's
\* sunset to today's sunrise anchored on yesterday, at or after sunset the
\* night from today's sunset to tomorrow's sunrise anchored on today, otherwise
\* the day from sunrise to sunset anchored on today.
C2_PeriodSelection ==
    (/\ result.kind = "Result"
     /\ NeededDays(_unix(result.target_time)) \cap sun.fail = {})
    => /\ _unix(result.period_start) = ExpectedPeriod(_unix(result.target_time)).start
       /\ _unix(result.period_end) = ExpectedPeriod(_unix(result.target_time)).end
       /\ result.is_night = ExpectedPeriod(_unix(result.target_time)).night
       /\ _unix(result.base_day)
              = At(ExpectedPeriod(_unix(result.target_time)).anchor, 0, 0, 0)

\* A target exactly at sunset was given the night that starts there.
C2_TargetAtSunsetIsNight ==
    /\ result.kind = "Result"
    /\ sun.fail = {}
    /\ _unix(result.target_time) = SunsetOn(DayOf(_unix(result.target_time)))
    /\ result.is_night
    /\ result.period_start = result.target_time
    /\ result.hour_index = 0

----------------------------------------------------------------------------
(* Properties of the hour divider.                                         *)

\* C3: for every period with start < end the divider returns an index in
\* 0..11, and the sub-hours it returns for the indices 0..11 partition the
\* period: sub-hour 0 starts at the period's start, sub-hour 11 ends at its
\* end, and each sub-hour ends where the next one starts.
C3_SubHoursPartitionPeriod ==
    (probe.fn = "divide" /\ probe.done) =>
        /\ probe.ps < probe.pe
        /\ probe.hour.index \in 0 .. 11
        /\ \A i \in 0 .. 11 : probe.hours[i].index = i
        /\ _unix(probe.hours[0].hour_start) = probe.ps
        /\ _unix(probe.hours[11].hour_end) = probe.pe
        /\ \A i \in 0 .. 10 :
              _unix(probe.hours[i].hour_end) = _unix(probe.hours[i + 1].hour_start)
        /\ \A i \in 0 .. 11 :
              _unix(probe.hours[i].hour_start) < _unix(probe.hours[i].hour_end)

\* A period whose length is no multiple of twelve seconds was divided.
C3_UnevenPeriodDivided ==
    /\ probe.fn = "divide"
    /\ probe.done
    /\ (probe.pe - probe.ps) % 12 # 0
    /\ probe.pe - probe.ps > SecondsPerHour
    /\ probe.tt = probe.pe - 1
    /\ probe.hour.index = 11

----------------------------------------------------------------------------
(* Properties of the ruler resolver.                                       *)

\* The seven-planet cycle, and the classical ruler of each weekday from Sunday.
ChaldeanCycle == << "Saturn", "Jupiter", "Mars", "Sun", "Venus", "Mercury", "Moon" >>

ClassicalDayRuler == << "Sun", "Moon", "Mars", "Mercury", "Jupiter", "Venus", "Saturn" >>

PositionInCycle(planet) == CHOOSE i \in 0 .. 6 : ChaldeanCycle[i + 1] = planet

\* The weekday of a calendar day, 0 = Sunday: 1970-01-01 was a Thursday.
WeekdayOf(t) == (DaysFromCivil(t.year, t.month, t.day) + 4) % 7

Resolved == probe.fn = "ruler" /\ probe.done

\* C4: on every anchor day of the calendar range the Zeller-style weekday is
\* the true weekday, the ruler at offset 0 is the classical ruler of that
\* weekday, and the ruler at every offset k is the planet k positions after
\* the day ruler in the cycle.
C4_WeekdayAndDayRuler ==
    Resolved =>
        /\ probe.day_of_week = WeekdayOf(probe.base)
        /\ probe.rulers[0] = ClassicalDayRuler[WeekdayOf(probe.base) + 1]
        /\ \A k \in 0 .. MaxOffset :
              probe.rulers[k] =
                  ChaldeanCycle[((PositionInCycle(
                      ClassicalDayRuler[WeekdayOf(probe.base) + 1]) + k) % 7) + 1]

\* The rulers of a day in February of a leap year, a Thursday, were resolved.
C4_LeapDayResolved ==
    /\ Resolved
    /\ probe.base.year = 2024 /\ probe.base.month = 2 /\ probe.base.day = 29
    /\ probe.day_of_week = 4
    /\ probe.rulers[0] = "Jupiter"

\* C5: on every anchor day the resolver gives the same planet at offsets k and
\* k + 7, and any seven consecutive offsets give all seven planets once each.
C5_SevenCycle ==
    Resolved =>
        /\ \A k \in 0 .. MaxOffset - 7 : probe.rulers[k] = probe.rulers[k + 7]
        /\ \A k \in 0 .. MaxOffset - 6 :
              { probe.rulers[j] : j \in k .. k + 6 } = { ChaldeanCycle[i] : i \in 1 .. 7 }

\* The rulers of a Saturday were resolved; its hours 0, 7, 14, 21 are Saturn's.
C5_SaturdayResolved ==
    /\ Resolved
    /\ WeekdayOf(probe.base) = 6
    /\ probe.rulers[0] = "Saturn"
    /\ probe.rulers[7] = "Saturn"
    /\ probe.rulers[21] = "Saturn"
    /\ probe.rulers[6] = "Moon"

\* The day after the anchor day lies in the calendar range as well.
NextDayInRange ==
    DaysFromCivil(probe.base.year, probe.base.month, probe.base.day) < LastAnchorDay

\* C6 as stated: at every offset the ruler of day D+1 is 5 positions ahead of
\* the ruler of day D in the cycle.
C6_ShiftOfFive ==
    (Resolved /\ NextDayInRange) =>
        \A k \in 0 .. MaxOffset :
            PositionInCycle(probe.next_rulers[k])
                = (PositionInCycle(probe.rulers[k]) + 5) % 7

\* C6: at every offset the ruler of day D+1 is 3 positions ahead of the ruler
\* of day D in the cycle (a day has 24 hours, and 24 mod 7 = 3).
C6_ShiftOfThree ==
    (Resolved /\ NextDayInRange) =>
        \A k \in 0 .. MaxOffset :
            PositionInCycle(probe.next_rulers[k])
                = (PositionInCycle(probe.rulers[k]) + 3) % 7

\* The rulers of a Monday and of the Tuesday after it were resolved.
C6_MondayToTuesday ==
    /\ Resolved
    /\ probe.base.year = 2024 /\ probe.base.month = 1 /\ probe.base.day = 1
    /\ probe.rulers[0] = "Moon"
    /\ probe.next_rulers[0] = "Mars"

----------------------------------------------------------------------------
(* Properties of the face: the scenario, the tick and the expiry.          *)

\* C7: with the location 0.00 / 0.00 in use, UTC offset 0, sunrise 06:07 and
\* sunset 18:07, hour offset 0 and the local time 07:00 on 2024-01-01, the
\* update shows a result: daytime sub-hour 0 with the ruler Moon.
C7_EquatorScenarioShowsMoon ==
    (/\ phase = "running"
     /\ page = 0
     /\ LocationInUse(longLatToUse, location) = Unset
     /\ utc_offset = 0
     /\ sun = NormalSun
     /\ hour_offset = 0
     /\ now = At(Day0, 7, 0, 0))
    => /\ result.kind = "Result"
       /\ ~result.is_night
       /\ result.hour_index = 0
       /\ result.ruler = "Moon"

\* The step of a handled tick: the clock is the only thing a tick advances.
TickHandled == now' # now

\* The update ran in this step on the new clock value.
Recomputed ==
    \E stale \in StaleGaps :
        /\ result' = _planetary_hour_face_update(now', hour_offset, longLatToUse, location, stale)
        /\ hour_offset_expires' =
               IF result'.kind = "Result" THEN result'.expires ELSE hour_offset_expires

\* C8 as stated: a tick handled at or after the expiry recomputes the result,
\* and a tick handled before the expiry leaves result and expiry unchanged.
C8_TickRecomputesAtExpiry ==
    [][ TickHandled =>
            IF Reg(_from_unix(now')) >= Reg(hour_offset_expires)
              THEN Recomputed
              ELSE UNCHANGED << result, hour_offset_expires >> ]_vars

\* C8: while the editor is idle (page 0), a tick handled at or after the
\* expiry recomputes the result; a tick handled before the expiry, or in an
\* editing page, leaves result and expiry unchanged.
C8_IdleTickRecomputesAtExpiry ==
    [][ TickHandled =>
            IF page = 0 /\ Reg(_from_unix(now')) >= Reg(hour_offset_expires)
              THEN Recomputed
              ELSE UNCHANGED << result, hour_offset_expires >> ]_vars

\* A tick was handled exactly at the expiry 07:08:00 of the first daytime
\* sub-hour with the editor idle, and the face shows the sub-hour recomputed
\* for that instant.
C8_RecomputedAtExpiryInstant ==
    /\ used.ticks = 2
    /\ page = 0
    /\ hour_offset = 0
    /\ now = At(Day0, 7, 8, 0)
    /\ result.kind = "Result"
    /\ result.target_time = _from_unix(now)
    /\ result.hour_index = 1
    /\ _unix(hour_offset_expires) = At(Day0, 8, 8, 0)

ValidDateTime(t) ==
    /\ t.month \in 1 .. 12
    /\ t.day \in 1 .. 31
    /\ t.hour \in 0 .. 23
    /\ t.minute \in 0 .. 59
    /\ t.second \in 0 .. 59

\* C9: after every update that produced a result the stored expiry is the end
\* of the computed sub-hour plus 60 seconds, as calendar fields with the carry
\* into minute, hour and day.
C9_ExpiryIsHourEndPlusMinute ==
    result.kind = "Result" =>
        /\ ValidDateTime(hour_offset_expires)
        /\ _unix(hour_offset_expires) = _unix(result.hour_end) + 60
        /\ hour_offset_expires.second = result.hour_end.second
        /\ result.expires = hour_offset_expires

\* The sub-hour ended at 23:59 and its expiry carried into the next day.
C9_ExpiryCarriedIntoNextDay ==
    /\ result.kind = "Result"
    /\ result.hour_end.hour = 23
    /\ result.hour_end.minute = 59
    /\ hour_offset_expires.day = result.hour_end.day + 1
    /\ hour_offset_expires.hour = 0
    /\ hour_offset_expires.minute = 0

----------------------------------------------------------------------------
(* Properties of the location editor.                                      *)

----------------------------------------------------------------------------
(* The digit conversion applied on its own to every coordinate.            *)

CoordinateRange == 18000 \* coordinates of -CoordinateRange..CoordinateRange hundredths

InitDigits ==
    /\ FaceAtRest
    /\ \E v \in -CoordinateRange .. CoordinateRange :
          probe = [fn |-> "digits", val |-> v, done |-> FALSE,
                   digits |-> << >>, back |-> 0]

\* _planetary_hour_face_struct_from_latlon, and _latlon_from_struct of its digits.
SplitAndRebuild ==
    /\ probe.fn = "digits"
    /\ ~probe.done
    /\ probe' = [probe EXCEPT
                    !.done = TRUE,
                    !.digits = _planetary_hour_face_struct_from_latlon(probe.val),
                    !.back = _latlon_from_struct(
                                 _planetary_hour_face_struct_from_latlon(probe.val))]
    /\ UNCHANGED faceVars

NextDigits == SplitAndRebuild

SpecDigits == InitDigits /\ [][NextDigits]_vars

\* C11: for every coordinate v of at most 18000 hundredths of a degree in
\* magnitude (which covers the latitudes of at most 9000), splitting v into
\* digits and reconstructing the coordinate from them gives v back, and every
\* digit is in 0..9.
C11_DigitsRoundTrip ==
    (probe.fn = "digits" /\ probe.done /\ Abs(probe.val) <= 18000) =>
        /\ probe.back = probe.val
        /\ probe.digits.sign \in 0 .. 1
        /\ \A f \in {"hundreds", "tens", "ones", "tenths", "hundredths"} :
              probe.digits[f] \in 0 .. 9
        /\ (probe.digits.sign = 1) = (probe.val < 0)
        /\ probe.digits.hundreds * 10000 + probe.digits.tens * 1000
               + probe.digits.ones * 100 + probe.digits.tenths * 10
               + probe.digits.hundredths = Abs(probe.val)

\* The longitude -179.99 was split into digits and rebuilt.
C11_WesternLongitudeRebuilt ==
    /\ probe.fn = "digits"
    /\ probe.done
    /\ probe.val = -17999
    /\ probe.digits = [sign |-> 1, hundreds |-> 1, tens |-> 7, ones |-> 9,
                       tenths |-> 9, hundredths |-> 9]
    /\ probe.back = -17999

\* The coordinate the working digits stand for.
WorkingCoordinate ==
    [latitude  |-> _latlon_from_struct(working_latitude),
     longitude |-> _latlon_from_struct(working_longitude)]

\* The last field of a page, and the field after a field, in the layout.
LastField == IF lcd_type = "custom" THEN 4 ELSE 5

FieldAfter(pg, digit) ==
    IF lcd_type # "custom" /\ pg = 1 /\ digit = 0 THEN 2 ELSE digit + 1

\* C12: in an editing page the advance-cursor command moves the active digit
\* to the next field; past the last field the active digit is 0 again, the page
\* goes from latitude to longitude and from longitude to idle, and the working
\* coordinate is the persisted one after each of the two crossings.
C12_CursorAdvancesAndCommits ==
    [][ (LightButtonUp /\ page # 0) =>
            IF active_digit = LastField
              THEN /\ active_digit' = 0
                   /\ page' = (IF page = 1 THEN 2 ELSE 0)
                   /\ location' = WorkingCoordinate
                   /\ ~location_changed'
              ELSE /\ active_digit' = FieldAfter(page, active_digit)
                   /\ page' = page
                   /\ location' = location ]_vars

\* The latitude 51.50 was advanced to 61.50 and the cursor then passed the last
\* latitude field: the longitude page is open and 61.50 is persisted.
C12_LatitudeCommittedAtCrossing ==
    /\ page = 2
    /\ active_digit = 0
    /\ used.presses = 1
    /\ ~location_changed
    /\ location = [latitude |-> 6150, longitude |-> -13]
    /\ WorkingCoordinate = location

\* The update ran in this step on the unchanged clock, for the location
\* persisted after the step.
RecomputedForNewLocation ==
    \E stale \in StaleGaps :
        /\ result' = _planetary_hour_face_update(now, hour_offset', longLatToUse',
                                                 location', stale)
        /\ hour_offset_expires' =
               IF result'.kind = "Result" THEN result'.expires ELSE hour_offset_expires

\* C13: the exit command (alarm long press) in an editing page, at any active
\* digit, commits the staged working coordinate, returns the editor to idle
\* with active digit 0, and recomputes the result.
C13_ExitCommitsAndRecomputes ==
    [][ (AlarmLongPress /\ page # 0) =>
            /\ page' = 0
            /\ active_digit' = 0
            /\ location' = WorkingCoordinate
            /\ ~location_changed'
            /\ hour_offset' = hour_offset
            /\ RecomputedForNewLocation ]_vars

\* The six-digit editor was left with the latitude 51.50 advanced to 52.50 in
\* its ones: 52.50 is persisted and the result shown is one for it.
C13_ExitedWithStagedLatitude ==
    /\ lcd_type = "classic"
    /\ phase = "running"
    /\ page = 0
    /\ active_digit = 0
    /\ used.presses = 1
    /\ hour_offset = 0
    /\ ~location_changed
    /\ location = [latitude |-> 5250, longitude |-> -13]
    /\ result.kind = "Result"

\* C14 as stated: from idle the alarm long press always opens the latitude
\* page with the active digit 0.
C14_LongPressAlwaysEntersEdit ==
    [][ (AlarmLongPress /\ page = 0) => (page' = 1 /\ active_digit' = 0) ]_vars

\* C14: from idle with no preset selected the alarm long press opens the
\* latitude page with the active digit 0 and changes neither the persisted
\* location nor the result; with a preset selected it deselects the preset,
\* recomputes for the persisted location and stays idle.
C14_LongPressEntersEditWithoutPreset ==
    [][ (AlarmLongPress /\ page = 0) =>
            IF longLatToUse = 0
              THEN /\ page' = 1
                   /\ active_digit' = 0
                   /\ UNCHANGED << location, location_changed, longLatToUse, result,
                                   hour_offset_expires, hour_offset >>
              ELSE /\ page' = 0
                   /\ active_digit' = 0
                   /\ longLatToUse' = 0
                   /\ UNCHANGED << location, location_changed, hour_offset >>
                   /\ RecomputedForNewLocation ]_vars

\* The latitude page was opened from idle in a build with a preset, the
\* persisted location being in use.
C14_EditorEnteredFromIdle ==
    /\ phase = "running"
    /\ Len(presets) > 1
    /\ longLatToUse = 0
    /\ page = 1
    /\ active_digit = 0
    /\ used.presses = 0
    /\ ~location_changed

----------------------------------------------------------------------------
(* The advance of the latitude tens applied on its own to every latitude.  *)

LatitudeRange == 9000    \* latitudes of -LatitudeRange..LatitudeRange hundredths

\* The active digit that is the tens of the latitude in a layout.
LatitudeTensField(lcd) == IF lcd = "custom" THEN 0 ELSE 2

InitLatitudeTens ==
    /\ FaceAtRest
    /\ \E v \in -LatitudeRange .. LatitudeRange, lcd \in LcdTypes :
          probe = [fn |-> "tens", lcd |-> lcd, done |-> FALSE,
                   before |-> _planetary_hour_face_struct_from_latlon(v),
                   after |-> << >>]

\* _planetary_hour_face_advance_digit in the latitude page with the tens active.
AdvanceTens ==
    /\ probe.fn = "tens"
    /\ ~probe.done
    /\ probe' = [probe EXCEPT
                    !.done = TRUE,
                    !.after = _planetary_hour_face_advance_digit(
                                  probe.lcd, 1, LatitudeTensField(probe.lcd), probe.before,
                                  _planetary_hour_face_struct_from_latlon(0)).lat]
    /\ UNCHANGED faceVars

NextLatitudeTens == AdvanceTens

SpecLatitudeTens == InitLatitudeTens /\ [][NextLatitudeTens]_vars

\* The magnitude the digits w would stand for with the tens advanced.
MagnitudeWithTensAdvanced(w) ==
    w.hundreds * 10000 + ((w.tens + 1) % 10) * 1000 + w.ones * 100
        + w.tenths * 10 + w.hundredths

\* C15: when advancing the tens of the latitude, in either layout, would make
\* the magnitude exceed 9000, the new tens digit is kept, ones, tenths and
\* hundredths become 0 and the sign stays: the latitude is exactly 9000 or
\* -9000 hundredths of a degree.
C15_LatitudeTensClamp ==
    (/\ probe.fn = "tens"
     /\ probe.done
     /\ MagnitudeWithTensAdvanced(probe.before) > 9000)
    => /\ probe.after.tens = (probe.before.tens + 1) % 10
       /\ probe.after.ones = 0
       /\ probe.after.tenths = 0
       /\ probe.after.hundredths = 0
       /\ probe.after.sign = probe.before.sign
       /\ probe.after.hundreds = probe.before.hundreds
       /\ _latlon_from_struct(probe.after)
              = (IF probe.before.sign = 1 THEN -9000 ELSE 9000)

\* The tens of the latitude -89.50 were advanced in the six-digit layout.
C15_SouthernLatitudeClamped ==
    /\ probe.fn = "tens"
    /\ probe.done
    /\ probe.lcd = "classic"
    /\ _latlon_from_struct(probe.before) = -8950
    /\ probe.after = [sign |-> 1, hundreds |-> 0, tens |-> 9, ones |-> 0,
                      tenths |-> 0, hundredths |-> 0]

----------------------------------------------------------------------------
(* Properties of the update without data.                                  *)

\* A step in which a handler does nothing but run the update: the activation
\* event, and a tick with the editor idle at or after the expiry.
OnlyUpdateRuns ==
    \/ EventActivate
    \/ (TickEvent /\ page = 0 /\ Reg(_from_unix(now')) >= Reg(hour_offset_expires))

\* The target instant of an update run at the end of the step.
TargetAfterStep == now' + hour_offset' * SecondsPerHour

\* C16: when the location in use is the unset value, the update ends in the
\* no-data outcome "NoLoc": no period, sub-hour or ruler is computed, and the
\* expiry, the hour offset and the editor state stay as they were; the same
\* holds, with the outcome "None", when the sun times of the target day fail.
C16_NoDataLeavesStateUnchanged ==
    [][ (/\ OnlyUpdateRuns
         /\ \/ LocationInUse(longLatToUse, location) = Unset
            \/ DayOf(TargetAfterStep) \in sun.fail)
        => /\ result' = (IF LocationInUse(longLatToUse, location) = Unset
                           THEN NoResult("NoLoc", NoDateTime)
                           ELSE NoResult("None", _from_unix(TargetAfterStep)))
           /\ result'.ruler = ""
           /\ result'.period_start = NoDateTime
           /\ result'.hour_start = NoDateTime
           /\ UNCHANGED << hour_offset_expires, hour_offset, longLatToUse, location, page,
                           active_digit, working_latitude, working_longitude,
                           location_changed >> ]_vars

\* A tick ran the update with no location set: the face shows "NoLoc" and the
\* expiry is still the instant of the activation.
C16_NoLocationAfterTick ==
    /\ phase = "running"
    /\ used.ticks = 1
    /\ LocationInUse(longLatToUse, location) = Unset
    /\ result = NoResult("NoLoc", NoDateTime)
    /\ _unix(hour_offset_expires) = At(Day0, 7, 0, 0)
    /\ now > At(Day0, 7, 0, 0)

----------------------------------------------------------------------------
(* Properties of the resignation.                                          *)

\* C17: resigning in an editing page with staged digit changes resets the
\* editor to Idle with active digit 0 and hour offset 0, and leaves the
\* persisted coordinate register as it was, the staged changes being dropped.
C17_ResignDiscardsStagedDigits ==
    [][ (planetary_hour_face_resign /\ page # 0 /\ location_changed)
        => /\ page' = 0
           /\ active_digit' = 0
           /\ hour_offset' = 0
           /\ location' = location ]_vars

----------------------------------------------------------------------------
(* The engine under UTC offsets and sun times that leave the calendar day.  *)

ZoneDay == DaysFromCivil(2024, 6, 21)

Reykjavik == [latitude |-> 6415, longitude |-> -2194]

Trondheim == [latitude |-> 6343, longitude |-> 1039]

\* Location, sun-event function and UTC offset of a run: a sunset past 24 h
\* UTC, a sunrise that the offset moves before 0 h, and sun times that stay
\* inside the day under an offset of an hour either way.
ZoneRuns ==
    { [reg |-> Reykjavik, off |-> 0,
       sun |-> [rise |-> At(0, 2, 55, 0), set |-> At(0, 24, 4, 0), fail |-> {}]],
      [reg |-> Trondheim, off |-> -2 * SecondsPerHour,
       sun |-> [rise |-> At(0, 1, 2, 0), set |-> At(0, 21, 38, 0), fail |-> {}]],
      [reg |-> London, off |-> SecondsPerHour, sun |-> NormalSun],
      [reg |-> London, off |-> -SecondsPerHour, sun |-> NormalSun] }

\* Local clock values at which a run starts: just after midnight, at noon and
\* late in the evening.
ZoneInstants == { At(ZoneDay, 0, 1, 0), At(ZoneDay, 12, 0, 0), At(ZoneDay, 23, 30, 0) }

InitZones ==
    /\ \E z \in ZoneRuns, clock \in ZoneInstants :
          Resigned("custom", DefaultBuild, z.reg, z.sun, z.off, clock)
    /\ probe = NoProbe

SpecZones == InitZones /\ [][Next]_vars

\* C18: the sun times being successful on every day, the period chosen by the
\* update starts before it ends and contains the target instant.
C18_PeriodContainsTarget ==
    result.kind = "Result"
        => /\ _unix(result.period_start) < _unix(result.period_end)
           /\ _unix(result.period_start) <= _unix(result.target_time)
           /\ _unix(result.target_time) < _unix(result.period_end)

----------------------------------------------------------------------------
(* Properties of the hour divider: the sub-hour of the target.             *)

TargetInPeriod == probe.fn = "divide" /\ probe.done /\ probe.ps <= probe.tt /\ probe.tt < probe.pe

C20_IndexClampedOnBothSides ==
    (probe.fn = "divide" /\ probe.done) =>
        probe.hour.index = (IF probe.tt < probe.ps THEN 0
                            ELSE IF probe.tt >= probe.pe THEN 11
                            ELSE ((probe.tt - probe.ps) * 12) \div (probe.pe - probe.ps))

----------------------------------------------------------------------------
(* The engine followed from one sub-hour into the next.                    *)

\* Seconds the clock advances between two handled ticks of such a run: the
\* length of a night, an equinox and a day sub-hour of SummerSun.
HourSteps == {2400, 3600, 4800}

\* A sun-event function with a day of sixteen hours: its day sub-hours last
\* eighty minutes, its night sub-hours forty.
SummerSun == [rise |-> At(0, 4, 37, 0), set |-> At(0, 20, 37, 0), fail |-> {}]

\* Clock values at which such a run starts: the half of every hour of Day0.
HourInstants == { At(Day0, h, 30, 0) : h \in 0 .. 23 }

InitHours ==
    /\ \E s \in {NormalSun, SummerSun}, clock \in HourInstants :
          Resigned("custom", DefaultBuild, London, s, 0, clock)
    /\ probe = NoProbe

HourTick == \E dt \in HourSteps : Tick(dt)

NextHours ==
    \/ planetary_hour_face_activate
    \/ EventActivate
    \/ HourTick
    \/ planetary_hour_face_resign

SpecHours == InitHours /\ [][NextHours]_vars

\* C21: when an update shows the sub-hour that starts where the sub-hour shown
\* before it ended - inside a period, from day sub-hour 11 to night sub-hour 0,
\* across midnight, and from night sub-hour 11 to day sub-hour 0 of the next
\* anchor day - the ruler is the next one of the Chaldean cycle.
C21_RulerAdvancesByOne ==
    [][ (/\ result.kind = "Result"
         /\ result'.kind = "Result"
         /\ result'.hour_start = result.hour_end)
        => PositionInCycle(result'.ruler) = (PositionInCycle(result.ruler) + 1) % 7 ]_vars

\* The first day sub-hour of Monday, ruled by the Moon, is shown after a tick
\* that came an hour after the last night sub-hour was shown.
C21_SunriseCrossed ==
    /\ sun = NormalSun
    /\ phase = "running"
    /\ used.ticks = 1
    /\ now = At(Day0, 6, 30, 0)
    /\ result.kind = "Result"
    /\ ~result.is_night
    /\ result.hour_index = 0
    /\ result.base_day = _from_unix(At(Day0, 0, 0, 0))
    /\ result.ruler = "Moon"

----------------------------------------------------------------------------
(* Properties of the expiry under an hour offset.                          *)

\* C22: whatever the hour offset, after a tick handled in Idle with a result
\* shown, the target instant now + 3600 * hour_offset is earlier than the end
\* of the sub-hour shown plus 60 seconds.
C22_TargetWithinGraceAfterTick ==
    [][ (TickEvent /\ page = 0 /\ result'.kind = "Result")
        => now' + hour_offset' * SecondsPerHour < _unix(result'.hour_end) + 60 ]_vars

----------------------------------------------------------------------------
(* The advance of a digit applied on its own near the bounds.              *)

ClampMargin == 200       \* magnitudes within this many hundredths of a bound or carry

\* Latitudes near 90.00, and longitudes near 180.00, near 80.00 (advancing the
\* hundreds passes 180.00) and near 100.00 (advancing the tens carries).
NearBoundMagnitudes(pg) ==
    IF pg = 1
      THEN 9000 - ClampMargin .. 9000
      ELSE (18000 - ClampMargin .. 18000) \cup (8000 .. 8000 + ClampMargin)
               \cup (10000 - ClampMargin .. 9999)

\* The active digits of a layout.
DigitsOf(lcd) == IF lcd = "custom" THEN 0 .. 4 ELSE 0 .. 5

InitAdvance ==
    /\ FaceAtRest
    /\ \E lcd \in LcdTypes, pg \in {1, 2}, s \in {-1, 1} :
         \E digit \in DigitsOf(lcd), m \in NearBoundMagnitudes(pg) :
            probe = [fn |-> "advance", lcd |-> lcd, pg |-> pg, digit |-> digit,
                     done |-> FALSE,
                     before |-> _planetary_hour_face_struct_from_latlon(s * m),
                     after |-> << >>]

\* _planetary_hour_face_advance_digit on the coordinate of the page.
AdvanceDigit ==
    /\ probe.fn = "advance"
    /\ ~probe.done
    /\ probe' = [probe EXCEPT
                    !.done = TRUE,
                    !.after = IF probe.pg = 1
                                THEN _planetary_hour_face_advance_digit(
                                         probe.lcd, 1, probe.digit, probe.before,
                                         _planetary_hour_face_struct_from_latlon(0)).lat
                                ELSE _planetary_hour_face_advance_digit(
                                         probe.lcd, 2, probe.digit,
                                         _planetary_hour_face_struct_from_latlon(0),
                                         probe.before).lon]
    /\ UNCHANGED faceVars

NextAdvance == AdvanceDigit

SpecAdvance == InitAdvance /\ [][NextAdvance]_vars

\* The digit field under the cursor, "sign" or "skipped".
FieldUnder(lcd, pg, digit) ==
    IF lcd = "custom"
      THEN << "tens", "ones", "tenths", "hundredths", "sign" >>[digit + 1]
      ELSE IF pg = 1
             THEN << "sign", "skipped", "tens", "ones", "tenths", "hundredths" >>[digit + 1]
             ELSE << "sign", "hundreds", "tens", "ones", "tenths", "hundredths" >>[digit + 1]

DigitFields == << "hundreds", "tens", "ones", "tenths", "hundredths" >>

OrderOf(field) == CHOOSE i \in 1 .. 5 : DigitFields[i] = field

Magnitude(w) ==
    w.hundreds * 10000 + w.tens * 1000 + w.ones * 100 + w.tenths * 10 + w.hundredths

BoundOf(pg) == IF pg = 1 THEN 9000 ELSE 18000

\* The digits with the field incremented: modulo 10, the tens of a longitude
\* of the five-digit layout carrying into the one-bit hundreds.
Incremented(w, lcd, pg, field) ==
    IF field = "tens" /\ pg = 2 /\ lcd = "custom" /\ w.tens = 9
      THEN [w EXCEPT !.tens = 0, !.hundreds = (w.hundreds + 1) % 2]
      ELSE IF field = "hundreds"
             THEN [w EXCEPT !.hundreds = (w.hundreds + 1) % 2]
             ELSE [w EXCEPT ![field] = (w[field] + 1) % 10]

\* A digit was advanced and the incremented coordinate exceeds its bound.
BoundExceeded ==
    /\ probe.fn = "advance"
    /\ probe.done
    /\ FieldUnder(probe.lcd, probe.pg, probe.digit) \notin {"sign", "skipped"}
    /\ Magnitude(Incremented(probe.before, probe.lcd, probe.pg,
                             FieldUnder(probe.lcd, probe.pg, probe.digit))) > BoundOf(probe.pg)

\* C23 as stated: in every field, page and layout, when the incremented
\* coordinate exceeds its bound the advanced digit keeps its incremented
\* value, the digits of higher order are unchanged and the digits of lower
\* order are 0.
C23_LowerDigitsZeroedEverywhere ==
    BoundExceeded =>
        LET field == FieldUnder(probe.lcd, probe.pg, probe.digit)
            inc   == Incremented(probe.before, probe.lcd, probe.pg, field)
        IN  /\ probe.after.sign = probe.before.sign
            /\ \A i \in 1 .. 5 :
                  probe.after[DigitFields[i]] =
                      (IF i <= OrderOf(field) THEN inc[DigitFields[i]] ELSE 0)

\* C23: when the incremented coordinate exceeds its bound, the outcome depends
\* on the field.  The tens of a latitude keep the incremented value and the
\* lower digits become 0.  The hundreds of a longitude (six-digit layout) keep
\* the incremented value, the tens become 8 and the lower digits 0.  The tens
\* of a longitude in the five-digit layout reset every digit to 0.  Every other
\* digit is itself set back to 0 and no other digit changes.  The sign never
\* changes.
C23_OutcomeByField ==
    BoundExceeded =>
        LET field == FieldUnder(probe.lcd, probe.pg, probe.digit)
            inc   == Incremented(probe.before, probe.lcd, probe.pg, field)
        IN  probe.after =
              (IF field = "tens" /\ probe.pg = 1
                 THEN [inc EXCEPT !.ones = 0, !.tenths = 0, !.hundredths = 0]
               ELSE IF field = "hundreds"
                 THEN [inc EXCEPT !.tens = 8, !.ones = 0, !.tenths = 0, !.hundredths = 0]
               ELSE IF field = "tens" /\ probe.lcd = "custom"
                 THEN [inc EXCEPT !.hundreds = 0, !.tens = 0, !.ones = 0, !.tenths = 0,
                                  !.hundredths = 0]
               ELSE [probe.before EXCEPT ![field] = 0])

\* The ones of the longitude 180.00 were advanced in the six-digit layout: the
\* ones are back at 0 and the longitude is still 180.00.
C23_OnesOfFullLongitudeAdvanced ==
    /\ probe.fn = "advance"
    /\ probe.done
    /\ probe.lcd = "classic"
    /\ probe.pg = 2
    /\ probe.digit = 3
    /\ _latlon_from_struct(probe.before) = 18000
    /\ _latlon_from_struct(probe.after) = 18000

----------------------------------------------------------------------------
(* The conversion of local decimal hours applied on its own.               *)

\* The local decimal hours lie from -HoursBefore, inclusive, to HoursAfter,
\* exclusive: the single day rollover of the conversion covers no more.
HoursBefore == 24

HoursAfter == 48

\* Minutes and seconds tried inside every hour: around the start, the half
\* and the end.
EdgeMinutes == {0, 1, 29, 30, 58, 59}

EdgeSeconds == {0, 1, 29, 30, 31, 59}

\* Days at midnight: the first and the last of a year, and around a leap day.
ConvertDays ==
    { DaysFromCivil(2024, 1, 1), DaysFromCivil(2024, 2, 28), DaysFromCivil(2024, 2, 29),
      DaysFromCivil(2024, 12, 31) }

InitConvert ==
    /\ FaceAtRest
    /\ \E d \in ConvertDays, h \in -HoursBefore .. HoursAfter - 1 :
         \E mi \in EdgeMinutes, s \in EdgeSeconds :
            probe = [fn |-> "convert", day_local |-> _from_unix(At(d, 0, 0, 0)),
                     local_hours_dec |-> h * SecondsPerHour + mi * 60 + s,
                     done |-> FALSE, t |-> NoDateTime]

\* _local_decimal_hours_to_dt
Convert ==
    /\ probe.fn = "convert"
    /\ ~probe.done
    /\ probe' = [probe EXCEPT
                    !.done = TRUE,
                    !.t = _local_decimal_hours_to_dt(probe.day_local, probe.local_hours_dec)]
    /\ UNCHANGED faceVars

NextConvert == Convert

SpecConvert == InitConvert /\ [][NextConvert]_vars

\* C24: for local decimal hours from -24 up to 48 on a day at midnight, the
\* conversion returns the calendar fields of the instant day + hours rounded to
\* the nearest whole minute, thirty seconds rounding up: second 0, minute in
\* 0..59, hour in 0..23, the date moved by a day for hours outside 0..24, and a
\* rounded minute of 60 carried into the hour and past 23 into the next day.
C24_ConversionRoundsToMinute ==
    (probe.fn = "convert" /\ probe.done) =>
        /\ ValidDateTime(probe.t)
        /\ probe.t.second = 0
        /\ _unix(probe.t)
              = ((_unix(probe.day_local) + probe.local_hours_dec + 30) \div 60) * 60
        /\ probe.t = _from_unix(_unix(probe.t))

\* 23 h 59 min 30 s on the last day of 2024 became the first midnight of 2025.
C24_CarriedIntoNewYear ==
    /\ probe.fn = "convert"
    /\ probe.done
    /\ probe.day_local = DateTime(2024, 12, 31, 0, 0, 0)
    /\ probe.local_hours_dec = At(0, 23, 59, 30)
    /\ probe.t = DateTime(2025, 1, 1, 0, 0, 0)

----------------------------------------------------------------------------
(* Properties of the hour offset under the editor's commands.              *)

\* C25: no command handled in an editing page changes the hour offset; in
\* particular the advance-cursor command that passes the last longitude field
\* and returns the editor to Idle leaves it as it was.  Only the commands
\* issued in Idle, the activation and the resignation change it.
C25_EditorKeepsHourOffset ==
    [][ (page # 0 /\ phase' = "running") => hour_offset' = hour_offset ]_vars

----------------------------------------------------------------------------
(* Invariants of the editor's cursor.                                      *)

\* C26: in every state reachable from activation the page is 0, 1 or 2, the
\* active digit is within the layout's range (0..4 in the five-digit layout,
\* 0..5 in the six-digit layout), the active digit is 0 in Idle, and in the
\* six-digit layout the cursor is never on digit 1 in the latitude page.
C26_CursorInRange ==
    /\ page \in 0 .. 2
    /\ active_digit \in (IF lcd_type = "custom" THEN 0 .. 4 ELSE 0 .. 5)
    /\ page = 0 => active_digit = 0
    /\ (lcd_type = "classic" /\ page = 1) => active_digit # 1

\* The cursor stands on the last field of the longitude page of the
\* six-digit layout.
C26_CursorOnLastLongitudeField ==
    /\ phase = "running"
    /\ lcd_type = "classic"
    /\ page = 2
    /\ active_digit = 5

====
